---- MODULE Spec2Model ----
(***************************************************************************)
(* Model of the generation engine of rag_generator.py: RagGenerator.run,   *)
(* the cooperative cancellation flag (stop_generation, _signal_handler)    *)
(* and the consecutive-failure budget.                                     *)
(*                                                                         *)
(* Time is counted in tenths of a second: the 0.1 s backoff slice is 1,    *)
(* the 0.5 s delay slice is 5.  A stage call (call_model_x, call_model_y)  *)
(* or a persist (save_record / save_html_record) is an operation in        *)
(* progress between the step that starts it and the step that receives     *)
(* its result; its result is chosen by the environment: "ok" (a validated  *)
(* dict / a path), "fail" (None / the empty path) or "raise" (an           *)
(* exception other than KeyboardInterrupt reaches the handler of run).     *)
(***************************************************************************)
EXTENDS Integers, Naturals, Sequences, FiniteSets, TLC

\* ---------------------------------------------------------------- bounds
MaxRecords == 2
MaxFailures == 2
MaxDelay == 7
MaxStopRequests == 1
MaxRuns == 2
\* longest string and longest tag list in a model response
MaxStrLen == 2
MaxTags == 2
\* longest text handed to a helper function
MaxTextLen == 4

\* ------------------------------------------------------ program constants
\* for _ in range(20): time.sleep(0.1)
BackoffSlices == 20
\* for _ in range(50): time.sleep(0.1)
UnexpectedBackoffSlices == 50
\* sleep_time = min(0.5, delay_remaining), in tenths of a second
DelaySlice == 5
\* if len(safe) > 50: safe = safe[:50]
SlugLimit == 50
\* if len(title) > 60: title = title[:57] + '...'
TitleLimit == 60
\* description[:160]
MetaLimit == 160
\* DEFAULT_MAX_RECORDS, DEFAULT_MAX_CONSECUTIVE_FAILURES
DefaultMaxRecords == 1000
DefaultMaxFailures == 3
\* delay_between_records: float = 1.0, in tenths of a second
DefaultDelay == 10

VARIABLES
  \* GeneratorConfig
  max_records, max_consecutive_failures, delay_between_records, web_format,
  \* RagGenerator fields
  running, total_records, consecutive_failures,
  \* position of the worker in run(), its loop locals
  pc, i, delay_remaining,
  \* why the loop was left: "none", "Stopped", "Completed", "Aborted"
  term,
  \* what the last stage call or persist returned: "none", "ok", "fail", "raise"
  result,
  \* history: operations started, failures seen
  xCalls, yCalls, nPersist, anyFail, xOk,
  \* history: control requests delivered, their kind, where the worker was
  \* when the flag went from set to cleared, operations started afterwards
  nCtl, ctl, stopAt, opsAfterStop,
  \* run() calls made on this engine; the summary has been emitted and run()
\* has returned
  runs, summary,
  \* locals of run(): the ideation result (the number of the ideation call
  \* that produced it, 0 for None), the intent handed to call_model_y, the
  \* solving result (the number of the solving call, 0 for None), the record
  \* <<intent, solution>> handed to the persist
  intent_data, intent_arg, solution_data, record,
  \* the five domain-shaping fields of the configuration object, and their
  \* values as read by the last ideation / solving call (NoRag: no call yet)
  rag, x_saw, y_saw,
  \* the two endpoint URLs of the configuration object; the Start button is
  \* enabled; history: the last controller operation and how it ended
  model_x_url, model_y_url, start_button, ui_op,
  \* one stage call taken apart: which stage ("x", "y"), what the endpoint
  \* does with the request, requests sent, the text call_model returned,
  \* how far the call is, what the stage returned, the status messages
  stage, http, requests, response, spc, stage_result, msgs,
  \* history: records handed to save_record / save_html_record, persists
  \* that returned a path
  writes, nSaved,
  \* one helper function applied to one input: which function, the input,
  \* what it returned
  fn, arg, ret

cfg == <<max_records, max_consecutive_failures, delay_between_records, web_format>>
counters == <<total_records, consecutive_failures>>
locals == <<i, delay_remaining>>
calls == <<xCalls, yCalls, nPersist>>
fails == <<anyFail, xOk>>
ctlVars == <<nCtl, ctl, stopAt>>
life == <<runs, summary>>
flow == <<intent_data, intent_arg, solution_data, record>>
seen == <<x_saw, y_saw>>
uiVars == <<rag, model_x_url, model_y_url, start_button, ui_op>>
stageVars == <<stage, http, requests, response, spc, stage_result, msgs>>
out == <<writes, nSaved>>
fnVars == <<fn, arg, ret>>
ext == <<uiVars, stageVars, out, fnVars>>
vars == <<cfg, running, counters, pc, locals, term, result, calls, fails,
          ctlVars, opsAfterStop, life, flow, seen, ext>>

Delays == {0, MaxDelay}
Outcomes == {"ok", "fail", "raise"}

Min(a, b) == IF a < b THEN a ELSE b

\* GeneratorConfig defaults of the five domain-shaping fields
DefaultRag ==
  [domain |-> "PHP 8 and HTML5", focus |-> "security and performance",
   constraint |-> "proprietary library constraint",
   skill_level |-> "senior architect", languages |-> "PHP and/or HTML"]

\* DEFAULT_MODEL_X_URL, DEFAULT_MODEL_Y_URL
DefaultUrlX == "http://192.168.1.29:8081"
DefaultUrlY == "http://192.168.1.29:8080"

\* no configuration read yet
NoRag ==
  [domain |-> "", focus |-> "", constraint |-> "", skill_level |-> "",
   languages |-> ""]

\* no JSON value, the None of call_model, no HTTP exchange, no stage result
NoJson == [t |-> "none", n |-> 0, s |-> <<>>, l |-> <<>>, o |-> <<>>]
NoneResponse == [kind |-> "none", val |-> NoJson]
NoHttp == [kind |-> "none", content |-> NoneResponse]
NoResult == [kind |-> "unset", data |-> NoJson]
\* nothing written yet; no helper function applied
NoWrites == [json |-> 0, html |-> 0]
NoArg == [kind |-> "none"]

\* RagGenerator.__init__: counters zero, running False; the worker thread
\* has been handed run() and has not executed its first statement yet.
Init ==
  /\ max_records \in 1..MaxRecords
  /\ max_consecutive_failures \in 1..MaxFailures
  /\ delay_between_records \in Delays
  /\ web_format \in BOOLEAN
  /\ running = FALSE
  /\ total_records = 0
  /\ consecutive_failures = 0
  /\ pc = "idle"
  /\ i = 0
  /\ delay_remaining = 0
  /\ term = "none"
  /\ result = "none"
  /\ xCalls = 0 /\ yCalls = 0 /\ nPersist = 0
  /\ anyFail = FALSE /\ xOk = FALSE
  /\ nCtl = 0 /\ ctl = "none" /\ stopAt = "none"
  /\ opsAfterStop = 0
  /\ runs = 1 /\ summary = FALSE
  /\ intent_data = 0 /\ intent_arg = 0 /\ solution_data = 0
  /\ record = <<0, 0>>
  /\ rag = DefaultRag /\ x_saw = NoRag /\ y_saw = NoRag
  /\ model_x_url = DefaultUrlX /\ model_y_url = DefaultUrlY
  /\ start_button = FALSE /\ ui_op = "none"
  /\ stage = "none" /\ http = NoHttp /\ requests = 0
  /\ response = NoneResponse /\ spc = "off" /\ stage_result = NoResult
  /\ msgs = <<>>
  /\ writes = NoWrites /\ nSaved = 0
  /\ fn = "none" /\ arg = NoArg /\ ret = NoArg

\* break / loop exit: run() falls through to the summary
Exit(t) == pc' = "done" /\ term' = t

\* a blocking operation (stage call, persist, sleep slice) is started
Started == opsAfterStop' = IF running THEN opsAfterStop ELSE opsAfterStop + 1

\* CountFailure with the limit test off by one (> for >=)
CountFailure_Late(next) ==
  /\ consecutive_failures' = consecutive_failures + 1
  /\ IF consecutive_failures + 1 > max_consecutive_failures
       THEN Exit("Aborted")
       ELSE pc' = next /\ term' = term

\* self.consecutive_failures += 1; if >= max_consecutive_failures: break;
\* otherwise go on at `next`
CountFailure(next) ==
  /\ consecutive_failures' = consecutive_failures + 1
  /\ IF consecutive_failures + 1 >= max_consecutive_failures
       THEN Exit("Aborted")
       ELSE pc' = next /\ term' = term

\* UnexpectedError that forgets to count the failure
UnexpectedError_NoCount ==
  /\ consecutive_failures' = consecutive_failures
  /\ pc' = "exc_check" /\ term' = term
  /\ i' = 0
  /\ UNCHANGED <<total_records, delay_remaining>>

\* UnexpectedError without the except clause: the exception leaves run()
UnexpectedError_Propagate ==
  /\ consecutive_failures' = consecutive_failures
  /\ pc' = "raised" /\ term' = term
  /\ i' = 0
  /\ UNCHANGED <<total_records, delay_remaining>>

\* except Exception: count the failure, then the long backoff
UnexpectedError ==
  /\ CountFailure("exc_check")
  /\ i' = 0
  /\ UNCHANGED <<total_records, delay_remaining>>

\* run(): self.running = True
RunStart ==
  /\ pc = "idle"
  /\ running' = TRUE
  /\ pc' = "loop"
  /\ UNCHANGED <<cfg, ext, life, flow, seen, counters, locals, term, result, calls, fails, ctlVars,
                 opsAfterStop>>

\* LoopCheck with the record limit off by one (<= for <)
LoopCheck_OffByOne ==
  /\ pc = "loop"
  /\ IF running /\ total_records <= max_records
       THEN pc' = "top" /\ term' = term
       ELSE Exit(IF ~running THEN "Stopped" ELSE "Completed")
  /\ result' = "none"
  /\ UNCHANGED <<cfg, ext, life, flow, seen, running, counters, locals, calls, fails, ctlVars,
                 opsAfterStop>>

\* while self.running and self.total_records < self.config.max_records
LoopCheck ==
  /\ pc = "loop"
  /\ IF running /\ total_records < max_records
       THEN pc' = "top" /\ term' = term
       ELSE Exit(IF ~running THEN "Stopped" ELSE "Completed")
  /\ result' = "none"
  /\ UNCHANGED <<cfg, ext, life, flow, seen, running, counters, locals, calls, fails, ctlVars,
                 opsAfterStop>>

\* x_saw and y_saw belong to the record in the making: they are kept while
\* the iteration goes on to the solving call or the persist, dropped when
\* it ends
SeenAfter ==
  IF pc' \in {"pre_y", "call_y", "persist"}
    THEN UNCHANGED seen
    ELSE x_saw' = NoRag /\ y_saw' = NoRag

\* if not self.running: break; else call_model_x() is started and reads the
\* configuration for its prompts
TopCheck ==
  /\ pc = "top"
  /\ IF ~running
       THEN Exit("Stopped") /\ UNCHANGED <<xCalls, opsAfterStop, x_saw>>
       ELSE pc' = "call_x" /\ term' = term /\ xCalls' = xCalls + 1 /\ Started
            /\ x_saw' = rag
  /\ UNCHANGED <<cfg, ext, life, flow, y_saw, running, counters, locals,
                 result, yCalls, nPersist, fails, ctlVars>>

\* XReturn that goes on to the solving stage although ideation returned None
XReturn_IgnoreFailure(r) ==
  /\ pc = "call_x"
  /\ result' = r
  /\ anyFail' = (anyFail \/ r # "ok")
  /\ xOk' = (xOk \/ r = "ok")
  /\ intent_data' = IF r = "raise" THEN intent_data
                     ELSE IF r = "ok" THEN xCalls ELSE 0
  /\ UNCHANGED <<intent_arg, solution_data, record>>
  /\ IF r = "raise" THEN UnexpectedError
     ELSE IF ~running THEN Exit("Stopped") /\ UNCHANGED <<counters, locals>>
     ELSE pc' = "pre_y" /\ term' = term /\ UNCHANGED <<counters, locals>>
  /\ UNCHANGED <<cfg, ext, life, running, calls, ctlVars, opsAfterStop>>
  /\ SeenAfter

\* call_model_x() returns r; cancellation check; failure branch
XReturn(r) ==
  /\ pc = "call_x"
  /\ result' = r
  /\ anyFail' = (anyFail \/ r # "ok")
  /\ xOk' = (xOk \/ r = "ok")
  /\ intent_data' = IF r = "raise" THEN intent_data
                     ELSE IF r = "ok" THEN xCalls ELSE 0
  /\ UNCHANGED <<intent_arg, solution_data, record>>
  /\ IF r = "raise" THEN UnexpectedError
     ELSE IF ~running THEN Exit("Stopped") /\ UNCHANGED <<counters, locals>>
     ELSE IF r = "fail"
       THEN CountFailure("bo_check") /\ i' = 0
            /\ UNCHANGED <<total_records, delay_remaining>>
       ELSE pc' = "pre_y" /\ term' = term /\ UNCHANGED <<counters, locals>>
  /\ UNCHANGED <<cfg, ext, life, running, calls, ctlVars, opsAfterStop>>
  /\ SeenAfter

\* if not self.running: break; else call_model_y(intent_data) is started
PreYCheck ==
  /\ pc = "pre_y"
  /\ IF ~running
       THEN Exit("Stopped") /\ UNCHANGED <<yCalls, opsAfterStop, intent_arg, y_saw>>
       ELSE pc' = "call_y" /\ term' = term /\ yCalls' = yCalls + 1 /\ Started
            /\ intent_arg' = intent_data /\ y_saw' = rag
  /\ UNCHANGED <<cfg, ext, life, intent_data, solution_data, record, x_saw,
                 running, counters, locals, result, xCalls, nPersist, fails,
                 ctlVars>>

\* Writer that hands the record to both writers
Writer_Both == {"json", "html"}

\* if self.config.web_format: save_html_record(record)
\* else: save_record(record)
Writer == IF web_format THEN {"html"} ELSE {"json"}

\* the record is handed to the writers in w
Handed(w) ==
  [json |-> writes.json + (IF "json" \in w THEN 1 ELSE 0),
   html |-> writes.html + (IF "html" \in w THEN 1 ELSE 0)]

\* YReturn without the cancellation check after the call
YReturn_NoCheck(r) ==
  /\ pc = "call_y"
  /\ result' = r
  /\ anyFail' = (anyFail \/ r # "ok")
  /\ xOk' = xOk
  /\ IF r = "raise"
       THEN UnexpectedError /\ UNCHANGED <<nPersist, opsAfterStop>>
     ELSE IF r = "fail"
       THEN CountFailure("bo_check") /\ i' = 0
            /\ UNCHANGED <<total_records, delay_remaining, nPersist, opsAfterStop>>
       ELSE pc' = "persist" /\ term' = term /\ nPersist' = nPersist + 1
            /\ Started /\ UNCHANGED <<counters, locals>>
  /\ solution_data' = IF r = "raise" THEN solution_data
                       ELSE IF r = "ok" THEN yCalls ELSE 0
  /\ record' = IF pc' = "persist" THEN <<intent_data, yCalls>> ELSE record
  /\ UNCHANGED <<intent_data, intent_arg>>
  /\ UNCHANGED <<cfg, uiVars, stageVars, fnVars, nSaved, life, running, xCalls, yCalls, ctlVars>>
  /\ SeenAfter
  /\ writes' = IF pc' = "persist" THEN Handed(Writer) ELSE writes

\* call_model_y() returns r; cancellation check; failure branch; on success
\* the record is assembled and save_record / save_html_record is started
YReturn(r) ==
  /\ pc = "call_y"
  /\ result' = r
  /\ anyFail' = (anyFail \/ r # "ok")
  /\ xOk' = xOk
  /\ IF r = "raise"
       THEN UnexpectedError /\ UNCHANGED <<nPersist, opsAfterStop>>
     ELSE IF ~running
       THEN Exit("Stopped") /\ UNCHANGED <<counters, locals, nPersist, opsAfterStop>>
     ELSE IF r = "fail"
       THEN CountFailure("bo_check") /\ i' = 0
            /\ UNCHANGED <<total_records, delay_remaining, nPersist, opsAfterStop>>
       ELSE pc' = "persist" /\ term' = term /\ nPersist' = nPersist + 1
            /\ Started /\ UNCHANGED <<counters, locals>>
  /\ solution_data' = IF r = "raise" THEN solution_data
                       ELSE IF r = "ok" THEN yCalls ELSE 0
  /\ record' = IF pc' = "persist" THEN <<intent_data, yCalls>> ELSE record
  /\ UNCHANGED <<intent_data, intent_arg>>
  /\ UNCHANGED <<cfg, uiVars, stageVars, fnVars, nSaved, life, running, xCalls, yCalls, ctlVars>>
  /\ SeenAfter
  /\ writes' = IF pc' = "persist" THEN Handed(Writer) ELSE writes

\* what a persist can do: save_record catches everything it does after
\* building the path; save_html_record builds title, slug and page outside
\* its try block
PersistOutcomes == IF web_format THEN Outcomes ELSE {"ok", "fail"}

\* PersistReturn that does not reset the failure counter on success
PersistReturn_NoReset(r) ==
  /\ pc = "persist"
  /\ r \in PersistOutcomes
  /\ result' = r
  /\ anyFail' = (anyFail \/ r # "ok")
  /\ xOk' = xOk
  /\ IF r = "raise" THEN UnexpectedError
     ELSE IF r = "ok"
       THEN /\ total_records' = total_records + 1
            /\ consecutive_failures' = consecutive_failures
            /\ pc' = "post_persist" /\ term' = term
            /\ UNCHANGED locals
       ELSE CountFailure("post_persist")
            /\ UNCHANGED <<total_records, locals>>
  /\ UNCHANGED <<cfg, uiVars, stageVars, fnVars, writes, life, flow, running, calls, ctlVars, opsAfterStop>>
  /\ SeenAfter
  /\ nSaved' = IF r = "ok" THEN nSaved + 1 ELSE nSaved

\* if filepath: total_records += 1; consecutive_failures = 0
\* else: consecutive_failures += 1; break at the limit
PersistReturn(r) ==
  /\ pc = "persist"
  /\ r \in PersistOutcomes
  /\ result' = r
  /\ anyFail' = (anyFail \/ r # "ok")
  /\ xOk' = xOk
  /\ IF r = "raise" THEN UnexpectedError
     ELSE IF r = "ok"
       THEN /\ total_records' = total_records + 1
            /\ consecutive_failures' = 0
            /\ pc' = "post_persist" /\ term' = term
            /\ UNCHANGED locals
       ELSE CountFailure("post_persist")
            /\ UNCHANGED <<total_records, locals>>
  /\ UNCHANGED <<cfg, uiVars, stageVars, fnVars, writes, life, flow, running, calls, ctlVars, opsAfterStop>>
  /\ SeenAfter
  /\ nSaved' = IF r = "ok" THEN nSaved + 1 ELSE nSaved

\* PostPersist that waits after the last record too
PostPersist_Always ==
  /\ pc = "post_persist"
  /\ IF running
       THEN pc' = "delay_check" /\ delay_remaining' = delay_between_records
       ELSE pc' = "loop" /\ delay_remaining' = delay_remaining
  /\ UNCHANGED <<cfg, ext, life, flow, seen, running, counters, i, term, result, calls, fails,
                 ctlVars, opsAfterStop>>

\* if self.running and self.total_records < self.config.max_records:
\*     delay_remaining = self.config.delay_between_records
PostPersist ==
  /\ pc = "post_persist"
  /\ IF running /\ total_records < max_records
       THEN pc' = "delay_check" /\ delay_remaining' = delay_between_records
       ELSE pc' = "loop" /\ delay_remaining' = delay_remaining
  /\ UNCHANGED <<cfg, ext, life, flow, seen, running, counters, i, term, result, calls, fails,
                 ctlVars, opsAfterStop>>

\* while delay_remaining > 0 and self.running: time.sleep(...) is started
DelayCheck ==
  /\ pc = "delay_check"
  /\ IF delay_remaining > 0 /\ running
       THEN pc' = "delay_sleep" /\ Started /\ delay_remaining' = delay_remaining
       ELSE pc' = "loop" /\ delay_remaining' = 0 /\ opsAfterStop' = opsAfterStop
  /\ UNCHANGED <<cfg, ext, life, flow, seen, running, counters, i, term, result, calls, fails, ctlVars>>

\* sleep_time = min(0.5, delay_remaining)
sleep_time == Min(DelaySlice, delay_remaining)

\* time.sleep(sleep_time) returns; delay_remaining -= sleep_time
DelaySleep ==
  /\ pc = "delay_sleep"
  /\ delay_remaining' = delay_remaining - sleep_time
  /\ pc' = "delay_check"
  /\ UNCHANGED <<cfg, ext, life, flow, seen, running, counters, i, term, result, calls, fails,
                 ctlVars, opsAfterStop>>

\* WaitCheck that sleeps all n slices without looking at the flag
WaitCheck_Uninterruptible(here, sleeping, after, n) ==
  /\ pc = here
  /\ IF i < n
       THEN pc' = sleeping /\ Started
       ELSE pc' = after /\ opsAfterStop' = opsAfterStop
  /\ UNCHANGED <<cfg, ext, life, flow, seen, running, counters, locals, term, result, calls, fails,
                 ctlVars>>

\* one pass of `for _ in range(n): if not self.running: break; time.sleep(0.1)`
\* up to the start of the sleep
WaitCheck(here, sleeping, after, n) ==
  /\ pc = here
  /\ IF i < n /\ running
       THEN pc' = sleeping /\ Started
       ELSE pc' = after /\ opsAfterStop' = opsAfterStop
  /\ UNCHANGED <<cfg, ext, life, flow, seen, running, counters, locals, term, result, calls, fails,
                 ctlVars>>

\* time.sleep(0.1) returns
WaitSleep(sleeping, here) ==
  /\ pc = sleeping
  /\ i' = i + 1
  /\ pc' = here
  /\ UNCHANGED <<cfg, ext, life, flow, seen, running, counters, delay_remaining, term, result, calls,
                 fails, ctlVars, opsAfterStop>>

\* after the for loop: if not self.running: break; else next iteration
WaitExit(after) ==
  /\ pc = after
  /\ IF ~running THEN Exit("Stopped") ELSE pc' = "loop" /\ term' = term
  /\ i' = 0
  /\ UNCHANGED <<cfg, ext, life, flow, seen, running, counters, delay_remaining, result, calls, fails,
                 ctlVars, opsAfterStop>>

\* the 2 s wait after a stage failure
BackoffCheck == WaitCheck("bo_check", "bo_sleep", "bo_exit", BackoffSlices)
BackoffSleep == WaitSleep("bo_sleep", "bo_check")
BackoffExit == WaitExit("bo_exit")

\* ExcCheck that waits only as long as the ordinary backoff
ExcCheck_Short == WaitCheck("exc_check", "exc_sleep", "exc_exit", BackoffSlices)

\* the 5 s wait after an unexpected exception
ExcCheck == WaitCheck("exc_check", "exc_sleep", "exc_exit", UnexpectedBackoffSlices)
ExcSleep == WaitSleep("exc_sleep", "exc_check")
ExcExit == WaitExit("exc_exit")

\* a control request of kind k reaches the engine
Request(k) ==
  /\ pc \notin {"nogen", "done"}
  /\ nCtl < MaxStopRequests
  /\ nCtl' = nCtl + 1
  /\ ctl' = k
  /\ stopAt' = IF running THEN pc ELSE stopAt

\* RagGeneratorUI.stop_generation: self.generator.running = False
stop_generation ==
  /\ Request("stop")
  /\ running' = FALSE
  /\ UNCHANGED <<cfg, ext, life, flow, seen, counters, pc, locals, term, result, calls, fails,
                 opsAfterStop>>

\* signal_handler that reports the signal and leaves the flag alone
signal_handler_NoClear ==
  /\ Request("signal")
  /\ running' = running
  /\ UNCHANGED <<cfg, ext, life, flow, seen, counters, pc, locals, term, result, calls, fails,
                 opsAfterStop>>

\* RagGenerator._signal_handler (SIGINT, SIGTERM): self.running = False
signal_handler ==
  /\ Request("signal")
  /\ running' = FALSE
  /\ UNCHANGED <<cfg, ext, life, flow, seen, counters, pc, locals, term, result, calls, fails,
                 opsAfterStop>>

\* after the loop: "Generation completed!", the record count and the output
\* directory are reported, run() returns
Summary ==
  /\ pc = "done"
  /\ ~summary
  /\ summary' = TRUE
  /\ UNCHANGED <<cfg, ext, runs, flow, seen, running, counters, pc, locals,
                 term, result, calls, fails, ctlVars, opsAfterStop>>

\* the caller invokes run() once more on the same RagGenerator: the fields
\* keep their values, the locals are new
RunAgain ==
  /\ pc = "done" /\ summary
  /\ runs < MaxRuns
  /\ runs' = runs + 1
  /\ pc' = "idle"
  /\ term' = "none" /\ result' = "none" /\ summary' = FALSE
  /\ intent_data' = 0 /\ intent_arg' = 0 /\ solution_data' = 0
  /\ record' = <<0, 0>>
  /\ UNCHANGED <<cfg, ext, seen, running, counters, locals, calls, fails,
                 ctlVars, opsAfterStop>>

Worker ==
  \/ RunStart
  \/ LoopCheck
  \/ TopCheck
  \/ \E r \in Outcomes : XReturn(r)
  \/ PreYCheck
  \/ \E r \in Outcomes : YReturn(r)
  \/ \E r \in Outcomes : PersistReturn(r)
  \/ PostPersist
  \/ DelayCheck
  \/ DelaySleep
  \/ BackoffCheck
  \/ BackoffSleep
  \/ BackoffExit
  \/ ExcCheck
  \/ ExcSleep
  \/ ExcExit
  \/ Summary

Next ==
  \/ Worker
  \/ stop_generation
  \/ signal_handler

Spec == Init /\ [][Next]_vars

\* a run that nothing interrupts: the worker thread is scheduled, and every
\* stage call, persist and sleep slice it waits for returns
SpecLive == Init /\ [][Worker]_vars /\ WF_vars(Worker)

\* the engine driven by a caller that may call run() again after it returned
NextRerun ==
  \/ Next
  \/ RunAgain

SpecRerun == Init /\ [][NextRerun]_vars

\* ------------------------------------------------- model responses, JSON
Chars == {"a", " "}
\* the texts of at most MaxStrLen characters
Strs == UNION {[1..n -> Chars] : n \in 0..MaxStrLen}
\* the tags a model can put in a list, and the lists of at most MaxTags tags
TagStrs == {<<>>, <<" ">>, <<"a">>}
TagLists == UNION {[1..n -> TagStrs] : n \in 0..MaxTags}

\* a value under a key of a JSON object: absent, null, a number, a string,
\* a list of strings
Absent == [t |-> "absent", n |-> 0, s |-> <<>>, l |-> <<>>]
FieldValues ==
  {Absent, [t |-> "null", n |-> 0, s |-> <<>>, l |-> <<>>]}
  \cup {[t |-> "num", n |-> n, s |-> <<>>, l |-> <<>>] : n \in {0, 5}}
  \cup {[t |-> "str", n |-> 0, s |-> s, l |-> <<>>] : s \in Strs}
  \cup {[t |-> "list", n |-> 0, s |-> <<>>, l |-> l] : l \in TagLists}

\* required_keys of the two stages
RequiredKeys(st) ==
  IF st = "x" THEN <<"raw_intent", "tags">>
  ELSE <<"code_snippet", "description">>
KeySet(st) == {RequiredKeys(st)[j] : j \in 1..2}

NoFields(st) == [k \in KeySet(st) |-> Absent]

\* what json.loads returns: null, a number, a string, a list or an object
\* with any of the stage's keys
JsonValues(st) ==
  {[t |-> "null", n |-> 0, s |-> <<>>, l |-> <<>>, o |-> NoFields(st)]}
  \cup {[t |-> "num", n |-> n, s |-> <<>>, l |-> <<>>, o |-> NoFields(st)] :
          n \in {0, 5}}
  \cup {[t |-> "str", n |-> 0, s |-> s, l |-> <<>>, o |-> NoFields(st)] :
          s \in Strs}
  \cup {[t |-> "list", n |-> 0, s |-> <<>>, l |-> l, o |-> NoFields(st)] :
          l \in TagLists}
  \cup {[t |-> "obj", n |-> 0, s |-> <<>>, l |-> <<>>, o |-> o] :
          o \in [KeySet(st) -> FieldValues]}

\* a response text, described by what extraction, _clean_json_string and
\* json.loads make of it: "none" (call_model returned None), "empty" (the
\* empty text), "garbage" (json.loads raises JSONDecodeError), "json"
Responses(st) ==
  {[kind |-> "empty", val |-> NoJson], [kind |-> "garbage", val |-> NoJson]}
  \cup {[kind |-> "json", val |-> v] : v \in JsonValues(st)}

\* what the endpoint does with the one request: the connection fails or
\* times out, the status is not 2xx, the body is not JSON, the path
\* choices[0].message.content is missing, or the content is returned (a
\* text, or null when the envelope carries "content": null)
HttpErrors == {"transport_error", "http_error", "bad_body", "bad_envelope"}
HttpOutcomes(st) ==
  {[kind |-> e, content |-> NoneResponse] : e \in HttpErrors}
  \cup {[kind |-> "ok", content |-> r] : r \in Responses(st) \cup {NoneResponse}}

\* str.strip() for the two-character alphabet
RECURSIVE LStrip(_)
LStrip(s) == IF s # <<>> /\ Head(s) = " " THEN LStrip(Tail(s)) ELSE s
RECURSIVE RStrip(_)
RStrip(s) ==
  IF s # <<>> /\ s[Len(s)] = " " THEN RStrip(SubSeq(s, 1, Len(s) - 1)) ELSE s
Strip(s) == RStrip(LStrip(s))

\* call_model with one retry after an error
call_model_Retry(h) ==
  IF h.kind = "ok"
    THEN [text |-> h.content, sent |-> 1, report |-> <<>>]
    ELSE [text |-> NoneResponse, sent |-> 2,
          report |-> <<"error_calling_model">>]

\* call_model: one requests.post; every exception is reported and gives None
call_model(h) ==
  IF h.kind = "ok"
    THEN [text |-> h.content, sent |-> 1, report |-> <<>>]
    ELSE [text |-> NoneResponse, sent |-> 1,
          report |-> <<"error_calling_model">>]

\* `key not in data` raises TypeError when data is null or a number
InRaises(data) == data.t \in {"null", "num"}
\* `key in data` for an object; a string or list over Chars never holds a key
HasKey(data, key) == data.t = "obj" /\ data.o[key].t # "absent"
\* `not data[key]`
Falsy(v) ==
  \/ v.t = "null"
  \/ v.t = "num" /\ v.n = 0
  \/ v.t = "str" /\ v.s = <<>>
  \/ v.t = "list" /\ v.l = <<>>
\* `str(data[key]).strip() == ""`: the text of a list or number is not blank
BlankText(v) == v.t = "str" /\ Strip(v.s) = <<>>

\* one key of validate_json: "raise", "bad" or "good"
KeyCheck(data, key) ==
  IF InRaises(data) THEN "raise"
  ELSE IF ~HasKey(data, key) \/ Falsy(data.o[key]) \/ BlankText(data.o[key])
    THEN "bad"
  ELSE "good"

\* validate_json(data, required_keys): the keys in order, the first bad one
\* reports "Validation failed" and returns False
validate_json(data, keys) ==
  LET c1 == KeyCheck(data, keys[1])
      c2 == KeyCheck(data, keys[2])
  IN  IF c1 = "raise" THEN [res |-> "raise", report |-> <<>>]
      ELSE IF c1 = "bad" THEN [res |-> "false", report |-> <<"validation_failed">>]
      ELSE IF c2 = "raise" THEN [res |-> "raise", report |-> <<>>]
      ELSE IF c2 = "bad" THEN [res |-> "false", report |-> <<"validation_failed">>]
      ELSE [res |-> "true", report |-> <<>>]

\* the part of call_model_x / call_model_y after call_model returned:
\* `if response:`, extraction and json.loads, validate_json; only
\* json.JSONDecodeError is caught
parse_response(st, resp) ==
  IF resp.kind \in {"none", "empty"}
    THEN [kind |-> "none", data |-> NoJson, report |-> <<>>]
  ELSE IF resp.kind = "garbage"
    THEN [kind |-> "none", data |-> NoJson,
          report |-> <<"failed_to_parse", "response_preview">>]
  ELSE LET v == validate_json(resp.val, RequiredKeys(st))
       IN  IF v.res = "raise"
             THEN [kind |-> "raise", data |-> NoJson, report |-> v.report]
           ELSE IF v.res = "true"
             THEN [kind |-> "dict", data |-> resp.val, report |-> v.report]
           ELSE [kind |-> "none", data |-> NoJson, report |-> v.report]

\* the engine as a stage call finds it
StageEngineInit ==
  /\ max_records = MaxRecords
  /\ max_consecutive_failures = MaxFailures
  /\ delay_between_records = 0
  /\ web_format = FALSE
  /\ running \in BOOLEAN
  /\ total_records \in 0..(MaxRecords - 1)
  /\ consecutive_failures \in 0..(MaxFailures - 1)
  /\ pc = IF stage = "x" THEN "call_x" ELSE "call_y"
  /\ i = 0 /\ delay_remaining = 0
  /\ term = "none" /\ result = "none"
  /\ xCalls = 1 /\ yCalls = (IF stage = "x" THEN 0 ELSE 1) /\ nPersist = 0
  /\ anyFail = FALSE /\ xOk = (stage = "y")
  /\ nCtl = 0 /\ ctl = "none" /\ stopAt = "none" /\ opsAfterStop = 0
  /\ runs = 1 /\ summary = FALSE
  /\ intent_data = IF stage = "x" THEN 0 ELSE 1
  /\ intent_arg = intent_data /\ solution_data = 0 /\ record = <<0, 0>>
  /\ rag = DefaultRag /\ x_saw = rag
  /\ y_saw = (IF stage = "x" THEN NoRag ELSE rag)
  /\ model_x_url = DefaultUrlX /\ model_y_url = DefaultUrlY
  /\ start_button = FALSE /\ ui_op = "none"
  /\ writes = NoWrites /\ nSaved = total_records
  /\ fn = "none" /\ arg = NoArg /\ ret = NoArg

\* a stage call is about to send its request
InitStage ==
  /\ stage \in {"x", "y"}
  /\ http \in HttpOutcomes(stage)
  /\ requests = 0
  /\ response = NoneResponse
  /\ spc = "start"
  /\ stage_result = NoResult
  /\ msgs = <<>>
  /\ StageEngineInit

engineVars == <<cfg, running, counters, pc, locals, term, result, calls, fails,
                ctlVars, opsAfterStop, life, flow, seen>>

\* response = self.call_model(url, system_prompt, user_prompt)
CallModel ==
  /\ spc = "start"
  /\ LET c == call_model(http)
     IN  /\ response' = c.text
         /\ requests' = requests + c.sent
         /\ msgs' = msgs \o c.report
  /\ spc' = "responded"
  /\ UNCHANGED <<engineVars, uiVars, out, fnVars, stage, http, stage_result>>

\* the rest of call_model_x / call_model_y
StageReturn ==
  /\ spc = "responded"
  /\ LET p == parse_response(stage, response)
     IN  /\ stage_result' = [kind |-> p.kind, data |-> p.data]
         /\ msgs' = msgs \o p.report
  /\ spc' = "done"
  /\ UNCHANGED <<engineVars, uiVars, out, fnVars, stage, http, requests,
                 response>>

NextStage ==
  \/ CallModel
  \/ StageReturn

SpecStage == InitStage /\ [][NextStage]_vars

\* ------------------------------------------------------------ controller
Fields == {"domain", "focus", "constraint", "skill_level", "languages"}

\* a text typed into an entry: its body, and whether blanks surround it
Typed(b, p) == [body |-> b, pad |-> p]
\* str.strip() of a typed text
StripText(t) == t.body
\* `not s` for a str
Empty(s) == s = ""

\* all five domain-shaping fields are non-empty
Complete(r) == \A f \in Fields : ~Empty(r[f])

\* two of the presets of show_preset_menu: a coding domain, a generic one
PhpPreset ==
  [domain |-> "PHP 8 and HTML5", focus |-> "security and performance",
   constraint |-> "proprietary library constraint (e.g., use the Sanitizer)",
   skill_level |-> "senior architect", languages |-> "PHP and/or HTML"]
CucinaPreset ==
  [domain |-> "Cucina e Ricette Italiane",
   focus |-> "ricette tradizionali e tecniche culinarie",
   constraint |-> "vincolo culinario specifico",
   skill_level |-> "chef esperto e food writer",
   languages |-> "Ricette, tecniche culinarie e descrizioni gastronomiche"]
Presets == {PhpPreset, CucinaPreset}

\* what the user types into the RAG panel: every field filled (with blanks
\* around the text), one field holding blanks only, or nothing at all
TypedRag ==
  [domain |-> "Python and Machine Learning",
   focus |-> "model deployment", constraint |-> "use the pipeline",
   skill_level |-> "ML engineer", languages |-> "Python"]
FilledForm == [f \in Fields |-> Typed(TypedRag[f], TRUE)]
EmptyForm == [f \in Fields |-> Typed("", FALSE)]
FormInputs ==
  {FilledForm, EmptyForm}
  \cup {[FilledForm EXCEPT ![f] = Typed("", TRUE)] : f \in Fields}

\* what the user types into the main window
FormRecords == {0, 1}
\* Max Failures: 0, and the smallest limit that lets a run survive a failure
FormFailures == {0, 2}
FormDelays == {-1, 0, MaxDelay}
FormUrlsX == {Typed("", TRUE), Typed(DefaultUrlX, TRUE)}
FormUrlsY == {Typed("", FALSE), Typed(DefaultUrlY, FALSE)}

\* is_alive() that reports a thread as gone once the loop of run() is left
ThreadAlive_UntilDone == pc # "nogen" /\ pc # "done"

\* generation_thread.is_alive(): run() was handed to a thread and has not
\* returned
ThreadAlive == pc # "nogen" /\ ~(pc = "done" /\ summary)

\* RagGeneratorUI.__init__: self.config = GeneratorConfig(), no generator,
\* the Start button enabled
InitUI ==
  /\ max_records = DefaultMaxRecords
  /\ max_consecutive_failures = DefaultMaxFailures
  /\ delay_between_records = DefaultDelay
  /\ web_format = FALSE
  /\ running = FALSE
  /\ total_records = 0
  /\ consecutive_failures = 0
  /\ pc = "nogen"
  /\ i = 0
  /\ delay_remaining = 0
  /\ term = "none"
  /\ result = "none"
  /\ xCalls = 0 /\ yCalls = 0 /\ nPersist = 0
  /\ anyFail = FALSE /\ xOk = FALSE
  /\ nCtl = 0 /\ ctl = "none" /\ stopAt = "none"
  /\ opsAfterStop = 0
  /\ runs = 1 /\ summary = FALSE
  /\ intent_data = 0 /\ intent_arg = 0 /\ solution_data = 0
  /\ record = <<0, 0>>
  /\ rag = DefaultRag /\ x_saw = NoRag /\ y_saw = NoRag
  /\ model_x_url = DefaultUrlX /\ model_y_url = DefaultUrlY
  /\ start_button = TRUE /\ ui_op = "none"
  /\ stage = "none" /\ http = NoHttp /\ requests = 0
  /\ response = NoneResponse /\ spc = "off" /\ stage_result = NoResult
  /\ msgs = <<>>
  /\ writes = NoWrites /\ nSaved = 0
  /\ fn = "none" /\ arg = NoArg /\ ret = NoArg

\* save_rag_config that saves whatever was typed
save_rag_config_NoCheck(f) ==
  /\ rag' = [k \in Fields |-> StripText(f[k])]
  /\ ui_op' = "save_ok"
  /\ UNCHANGED <<engineVars, model_x_url, model_y_url, start_button,
                 stageVars, out, fnVars>>

\* RagGeneratorUI.save_rag_config: strip the five texts, refuse when one is
\* empty, otherwise assign them to self.config
save_rag_config(f) ==
  /\ LET t == [k \in Fields |-> StripText(f[k])]
     IN  IF \E k \in Fields : Empty(t[k])
           THEN rag' = rag /\ ui_op' = "save_rejected"
           ELSE rag' = t /\ ui_op' = "save_ok"
  /\ UNCHANGED <<engineVars, model_x_url, model_y_url, start_button,
                 stageVars, out, fnVars>>

\* RagGeneratorUI.load_preset: the preset goes into self.config at once
load_preset(p) ==
  /\ rag' = [k \in Fields |-> p[k]]
  /\ ui_op' = "preset"
  /\ UNCHANGED <<engineVars, model_x_url, model_y_url, start_button,
                 stageVars, out, fnVars>>

\* RagGenerator.__init__ on the configuration object of the controller
NewEngine ==
  /\ running' = FALSE
  /\ total_records' = 0
  /\ consecutive_failures' = 0
  /\ pc' = "idle"
  /\ i' = 0
  /\ delay_remaining' = 0
  /\ term' = "none"
  /\ result' = "none"
  /\ xCalls' = 0 /\ yCalls' = 0 /\ nPersist' = 0
  /\ anyFail' = FALSE /\ xOk' = FALSE
  /\ nCtl' = 0 /\ ctl' = "none" /\ stopAt' = "none"
  /\ opsAfterStop' = 0
  /\ runs' = 1 /\ summary' = FALSE
  /\ intent_data' = 0 /\ intent_arg' = 0 /\ solution_data' = 0
  /\ record' = <<0, 0>>
  /\ x_saw' = NoRag /\ y_saw' = NoRag
  /\ writes' = NoWrites /\ nSaved' = 0

\* RagGeneratorUI.start_generation (the Start button is enabled): the form
\* goes into self.config, then the checks; when they pass, a new engine on
\* the same configuration object, Start disabled, the worker thread started
start_generation(mr, mf, dl, xu, yu, wf) ==
  /\ start_button
  /\ max_records' = mr
  /\ max_consecutive_failures' = mf
  /\ delay_between_records' = dl
  /\ model_x_url' = StripText(xu)
  /\ model_y_url' = StripText(yu)
  /\ web_format' = wf
  /\ rag' = rag
  /\ IF \/ mr <= 0
        \/ dl < 0
        \/ Empty(StripText(xu)) \/ Empty(StripText(yu))
        \/ ~Complete(rag)
       THEN /\ ui_op' = "start_rejected"
            /\ UNCHANGED <<running, counters, pc, locals, term, result,
                           calls, fails, ctlVars, opsAfterStop, life, flow,
                           seen, out, start_button>>
       ELSE /\ ui_op' = "start_ok"
            /\ NewEngine
            /\ start_button' = FALSE
  /\ UNCHANGED <<stageVars, fnVars>>

\* RagGeneratorUI.update_generation_status, polled every second after a
\* start: while the thread is alive it only refreshes labels; once run()
\* has returned it enables Start again and stops polling. The locals of
\* the run that ended and the history kept about it are dropped here; the
\* fields of the engine object stay
update_generation_status ==
  /\ ~start_button
  /\ ~ThreadAlive
  /\ start_button' = TRUE
  /\ ui_op' = "finished"
  /\ i' = 0 /\ delay_remaining' = 0 /\ result' = "none"
  /\ xCalls' = 0 /\ yCalls' = 0 /\ nPersist' = 0
  /\ anyFail' = FALSE /\ xOk' = FALSE
  /\ nCtl' = 0 /\ ctl' = "none" /\ stopAt' = "none"
  /\ opsAfterStop' = 0
  /\ intent_data' = 0 /\ intent_arg' = 0 /\ solution_data' = 0
  /\ record' = <<0, 0>>
  /\ x_saw' = NoRag /\ y_saw' = NoRag
  /\ writes' = NoWrites /\ nSaved' = 0
  /\ UNCHANGED <<cfg, running, counters, pc, term, life, rag, model_x_url,
                 model_y_url, stageVars, fnVars>>

NextUI ==
  \/ Worker
  \/ stop_generation
  \/ signal_handler
  \/ \E f \in FormInputs : save_rag_config(f)
  \/ \E p \in Presets : load_preset(p)
  \/ \E mr \in FormRecords, mf \in FormFailures, dl \in FormDelays,
        xu \in FormUrlsX, yu \in FormUrlsY, wf \in BOOLEAN :
       start_generation(mr, mf, dl, xu, yu, wf)
  \/ update_generation_status

SpecUI == InitUI /\ [][NextUI]_vars

\* ------------------------------------------------------ helper functions
\* texts are sequences of characters

\* str.find / str.rfind of a character, 0 when it does not occur
Find(s, c) ==
  IF \E j \in 1..Len(s) : s[j] = c
    THEN CHOOSE j \in 1..Len(s) : s[j] = c /\ \A m \in 1..(j - 1) : s[m] # c
    ELSE 0
RFind(s, c) ==
  IF \E j \in 1..Len(s) : s[j] = c
    THEN CHOOSE j \in 1..Len(s) :
           s[j] = c /\ \A m \in (j + 1)..Len(s) : s[m] # c
    ELSE 0

\* s[a:b+1] for positions counted from 1; a slice ends where the text ends
Slice(s, a, b) ==
  LET last == IF b > Len(s) THEN Len(s) ELSE b
  IN  IF a <= last THEN SubSeq(s, a, last) ELSE <<>>

\* str.replace(c, r) for a character c
RECURSIVE Replace(_, _, _)
Replace(s, c, r) ==
  IF s = <<>> THEN <<>>
  ELSE (IF Head(s) = c THEN r ELSE <<Head(s)>>) \o Replace(Tail(s), c, r)

\* the texts over an alphabet, of at most MaxTextLen characters
Texts(alphabet) == UNION {[1..n -> alphabet] : n \in 0..MaxTextLen}

\* ---- _escape_html
HtmlSpecials == {"&", "<", ">", "\"", "'"}
\* the entity that replaces a special character
Entity(c) ==
  IF c = "&" THEN <<"&", "a", "m", "p", ";">>
  ELSE IF c = "<" THEN <<"&", "l", "t", ";">>
  ELSE IF c = ">" THEN <<"&", "g", "t", ";">>
  ELSE IF c = "\"" THEN <<"&", "q", "u", "o", "t", ";">>
  ELSE <<"&", "#", "x", "2", "7", ";">>

\* _escape_html that replaces the ampersand last
escape_html_AmpLast(text) ==
  LET sub(t, c) == Replace(t, c, Entity(c))
  IN  IF text = <<>> THEN <<>>
      ELSE sub(sub(sub(sub(sub(text, "<"), ">"), "\""), "'"), "&")

\* _escape_html that leaves the apostrophe alone
escape_html_NoApos(text) ==
  LET sub(t, c) == Replace(t, c, Entity(c))
  IN  IF text = <<>> THEN <<>>
      ELSE sub(sub(sub(sub(text, "&"), "<"), ">"), "\"")

\* _escape_html: the five replacements, the ampersand first
escape_html(text) ==
  LET sub(t, c) == Replace(t, c, Entity(c))
  IN  IF text = <<>> THEN <<>>
      ELSE sub(sub(sub(sub(sub(text, "&"), "<"), ">"), "\""), "'")

\* ---- _create_safe_filename
\* re.sub(r'[^\w\s-]', '', title): \w of a str pattern keeps letters,
\* digits and the underscore
RECURSIVE RemoveSpecial(_)
RemoveSpecial(s) ==
  IF s = <<>> THEN <<>>
  ELSE (IF Head(s) \in {"a", "B", "b", "1", "_", " ", "-"}
          THEN <<Head(s)>> ELSE <<>>) \o RemoveSpecial(Tail(s))

\* re.sub(r'[-\s]+', '-', safe)
RECURSIVE SkipSeparators(_)
SkipSeparators(s) ==
  IF s # <<>> /\ Head(s) \in {"-", " "} THEN SkipSeparators(Tail(s)) ELSE s
RECURSIVE Hyphenate(_)
Hyphenate(s) ==
  IF s = <<>> THEN <<>>
  ELSE IF Head(s) \in {"-", " "}
    THEN <<"-">> \o Hyphenate(SkipSeparators(Tail(s)))
  ELSE <<Head(s)>> \o Hyphenate(Tail(s))

\* _create_safe_filename: remove, hyphenate, cut, lower(), strip('-')
create_safe_filename(title) ==
  LET safe == Hyphenate(RemoveSpecial(title))
      cut == IF Len(safe) > SlugLimit THEN SubSeq(safe, 1, SlugLimit) ELSE safe
      low == [j \in 1..Len(cut) |-> IF cut[j] = "B" THEN "b" ELSE cut[j]]
      kept == {j \in 1..Len(low) : low[j] # "-"}
  IN  IF kept = {} THEN <<>>
      ELSE SubSeq(low, CHOOSE j \in kept : \A m \in kept : j <= m,
                       CHOOSE j \in kept : \A m \in kept : j >= m)

\* ---- _clean_json_string
\* what json.loads does with the candidate: a value, JSONDecodeError,
\* JSONDecodeError for an invalid escape, or RecursionError (nesting deeper
\* than the interpreter allows)
LoadsOutcomes == {"value", "JSONDecodeError", "InvalidEscape", "RecursionError"}

\* the candidate of _clean_json_string that cuts at the first closer
candidate_FirstCloser(json_str) ==
  LET s == Strip(json_str)
      first_brace == Find(s, "{")
      first_bracket == Find(s, "[")
  IN  IF first_brace # 0 /\ (first_bracket = 0 \/ first_brace < first_bracket)
        THEN IF Find(s, "}") > first_brace
               THEN Slice(s, first_brace, Find(s, "}")) ELSE s
      ELSE IF first_bracket # 0
        THEN IF Find(s, "]") > first_bracket
               THEN Slice(s, first_bracket, Find(s, "]")) ELSE s
      ELSE s

\* the candidate of _clean_json_string whose slice stops in front of the
\* last closer
candidate_OpenEnd(json_str) ==
  LET s == Strip(json_str)
      first_brace == Find(s, "{")
      first_bracket == Find(s, "[")
  IN  IF first_brace # 0 /\ (first_bracket = 0 \/ first_brace < first_bracket)
        THEN IF RFind(s, "}") > first_brace
               THEN Slice(s, first_brace, RFind(s, "}") - 1) ELSE s
      ELSE IF first_bracket # 0
        THEN IF RFind(s, "]") > first_bracket
               THEN Slice(s, first_bracket, RFind(s, "]") - 1) ELSE s
      ELSE s

\* lines 66-79: strip, then the slice from the first opener to the last
\* closer of its kind when that closer lies behind the opener
candidate(json_str) ==
  LET s == Strip(json_str)
      first_brace == Find(s, "{")
      first_bracket == Find(s, "[")
  IN  IF first_brace # 0 /\ (first_bracket = 0 \/ first_brace < first_bracket)
        THEN IF RFind(s, "}") > first_brace
               THEN Slice(s, first_brace, RFind(s, "}")) ELSE s
      ELSE IF first_bracket # 0
        THEN IF RFind(s, "]") > first_bracket
               THEN Slice(s, first_bracket, RFind(s, "]")) ELSE s
      ELSE s

\* _clean_json_string: the candidate is parsed once; JSONDecodeError is
\* caught and the candidate returned as it is, any other exception leaves
\* the function
clean_json_string(json_str, loads) ==
  IF loads \in {"value", "JSONDecodeError", "InvalidEscape"}
    THEN [kind |-> "text", text |-> candidate(json_str)]
    ELSE [kind |-> "raise", text |-> <<>>]

\* ---- fence selection of call_model_x / call_model_y
\* a response is made of the fence ``` ("F"), the word json, a JSON text,
\* prose and blanks

\* the text before the first c
Before(s, c) == IF Find(s, c) = 0 THEN s ELSE Slice(s, 1, Find(s, c) - 1)
\* the text behind position j
Behind(s, j) == Slice(s, j + 1, Len(s))
\* the first position where "```json" starts, 0 when there is none
FindJsonFence(s) ==
  IF \E j \in 1..(Len(s) - 1) : s[j] = "F" /\ s[j + 1] = "json"
    THEN CHOOSE j \in 1..(Len(s) - 1) :
           /\ s[j] = "F" /\ s[j + 1] = "json"
           /\ \A m \in 1..(j - 1) : ~(s[m] = "F" /\ s[m + 1] = "json")
    ELSE 0

\* fence selection that takes the text in front of the first fence
extract_json_Outside(reply) ==
  IF FindJsonFence(reply) # 0
    THEN Strip(Before(Behind(reply, FindJsonFence(reply) + 1), "F"))
  ELSE IF Find(reply, "F") # 0
    THEN Strip(Before(reply, "F"))
  ELSE Strip(reply)

\* response.split("```json")[1].split("```")[0].strip(), else
\* response.split("```")[1].strip(), else response.strip()
extract_json(reply) ==
  IF FindJsonFence(reply) # 0
    THEN Strip(Before(Behind(reply, FindJsonFence(reply) + 1), "F"))
  ELSE IF Find(reply, "F") # 0
    THEN Strip(Before(Behind(reply, Find(reply, "F")), "F"))
  ELSE Strip(reply)

\* ---- the record of run()
RecKeys == {"raw_intent", "tags", "code_snippet", "description",
            "generated_at", "model_x_url", "model_y_url"}
\* a validated stage output names where each of its values comes from
\* ("x": Model X, "y": Model Y, "-": the key is absent); the required keys
\* are present, any other key may be
IntentDicts ==
  {d \in [RecKeys -> {"-", "x"}] : d["raw_intent"] = "x" /\ d["tags"] = "x"}
SolutionDicts ==
  {d \in [RecKeys -> {"-", "y"}] :
     d["code_snippet"] = "y" /\ d["description"] = "y"}

\* {**a, **b}: the keys of b override those of a
DictUnion(a, b) == [k \in RecKeys |-> IF b[k] # "-" THEN b[k] ELSE a[k]]

\* record = {**intent_data, **solution_data, "generated_at": ...,
\*           "model_x_url": ..., "model_y_url": ...}
assemble_record(intent, solution) ==
  LET provenance ==
        [k \in RecKeys |->
           IF k = "generated_at" THEN "now"
           ELSE IF k = "model_x_url" THEN model_x_url
           ELSE IF k = "model_y_url" THEN model_y_url
           ELSE "-"]
  IN  DictUnion(DictUnion(intent, solution), provenance)

\* ---- _generate_title, _format_content, _generate_html_page
\* records for the page: texts of a letter and a special character, also
\* empty ones, one to MaxTags tags
PageRecords ==
  LET texts == {<<"a">>, <<"<">>, <<"a", "<">>}
  IN  [raw_intent : texts \cup {<<>>},
       tags : UNION {[1..n -> texts] : n \in 1..MaxTags},
       code_snippet : texts \cup {<<>>}, description : texts \cup {<<>>}]

\* Shorten that keeps 60 characters in front of the dots
Shorten_Late(title) ==
  IF Len(title) > TitleLimit
    THEN SubSeq(title, 1, TitleLimit) \o <<".", ".", ".">>
    ELSE title

\* title[:57] + '...' for a title of more than 60 characters
Shorten(title) ==
  IF Len(title) > TitleLimit
    THEN SubSeq(title, 1, TitleLimit - 3) \o <<".", ".", ".">>
    ELSE title

\* _generate_title: the first sentence of raw_intent, else of description,
\* else "Solution <timestamp>"
generate_title(rec) ==
  LET fromIntent == Shorten(Strip(Before(rec.raw_intent, ".")))
      fromDescription == Shorten(Strip(Before(rec.description, ".")))
  IN  IF rec.raw_intent # <<>> /\ fromIntent # <<>> THEN fromIntent
      ELSE IF rec.description # <<>> /\ fromDescription # <<>>
        THEN fromDescription
      ELSE <<"S">>

\* sep.join(tags)
RECURSIVE Join(_, _)
Join(sep, tags) ==
  IF tags = <<>> THEN <<>>
  ELSE IF Len(tags) = 1 THEN Head(tags)
  ELSE Head(tags) \o sep \o Join(sep, Tail(tags))

\* _format_content of a text without fences and line breaks: the
\* placeholder for no content, else one paragraph, escaped
format_content(content) ==
  IF content = <<>> THEN <<"Nessun contenuto disponibile.">>
  ELSE IF Strip(content) = <<>> THEN <<>>
  ELSE escape_html(Strip(content))

\* main_content that prefers the description
main_content_Description(rec) ==
  IF rec.description # <<>> THEN rec.description
  ELSE IF rec.code_snippet # <<>> THEN rec.code_snippet
  ELSE rec.raw_intent

\* main_content = code_snippet if code_snippet else description;
\* if not main_content: main_content = raw_intent
main_content(rec) ==
  IF rec.code_snippet # <<>> THEN rec.code_snippet
  ELSE IF rec.description # <<>> THEN rec.description
  ELSE rec.raw_intent

\* _generate_html_page: the texts put into the slots of the template, in
\* the order of the document
generate_html_page(rec, title) ==
  LET meta_description ==
        IF rec.description # <<>> THEN Slice(rec.description, 1, MetaLimit)
        ELSE IF rec.raw_intent # <<>> THEN Slice(rec.raw_intent, 1, MetaLimit)
        ELSE title
  IN  << [slot |-> "meta_description", text |-> escape_html(meta_description)],
         [slot |-> "meta_keywords", text |-> Join(<<",", " ">>, rec.tags)],
         [slot |-> "og_title", text |-> escape_html(title)],
         [slot |-> "og_description", text |-> escape_html(meta_description)],
         [slot |-> "title", text |-> escape_html(title)],
         [slot |-> "h1", text |-> escape_html(title)],
         [slot |-> "intent", text |-> escape_html(rec.raw_intent)],
         [slot |-> "solution", text |-> format_content(main_content(rec))],
         [slot |-> "description",
          text |-> IF /\ rec.description # <<>>
                         /\ rec.description # main_content(rec)
                     THEN escape_html(rec.description) ELSE <<>>],
         [slot |-> "tags", text |-> Join(<<>>, rec.tags)] >>

\* ---- json.dump(record, f, ensure_ascii=False, indent=2)
\* a text is made of a letter, the quote, the backslash, the comma and the
\* line feed ("LF")

\* the escapes of a JSON string without the one for the backslash
RECURSIVE JsonEscape_NoBackslash(_)
JsonEscape_NoBackslash(s) ==
  IF s = <<>> THEN <<>>
  ELSE (IF Head(s) = "\"" THEN <<"\\", "\"">>
        ELSE IF Head(s) = "LF" THEN <<"\\", "n">>
        ELSE <<Head(s)>>) \o JsonEscape_NoBackslash(Tail(s))

\* the escapes of a JSON string: quote, backslash and control characters;
\* with ensure_ascii=False every other character is written as it is
RECURSIVE JsonEscape(_)
JsonEscape(s) ==
  IF s = <<>> THEN <<>>
  ELSE (IF Head(s) = "\"" THEN <<"\\", "\"">>
        ELSE IF Head(s) = "\\" THEN <<"\\", "\\">>
        ELSE IF Head(s) = "LF" THEN <<"\\", "n">>
        ELSE <<Head(s)>>) \o JsonEscape(Tail(s))

\* what json.dump writes for each key of the record: a string in quotes, the
\* list of tags in brackets with one item per line
json_dump(rec) ==
  LET str(t) == <<"\"">> \o JsonEscape(t) \o <<"\"">>
      list(l) ==
        IF l = <<>> THEN <<"[", "]">>
        ELSE <<"[", "LF">>
             \o Join(<<",", "LF">>, [j \in 1..Len(l) |-> str(l[j])])
             \o <<"LF", "]">>
  IN  [k \in DOMAIN rec |-> IF k = "tags" THEN list(rec[k]) ELSE str(rec[k])]

\* records the engine can assemble: texts of up to MaxStrLen characters,
\* one to MaxTags tags, the provenance of the run
JsonRecords ==
  LET chars == {"a", "\"", "\\", ",", "LF"}
      texts(m) == UNION {[1..n -> chars] : n \in 0..m}
  IN  [raw_intent : texts(MaxStrLen) \ {<<>>},
       tags : UNION {[1..n -> texts(1)] : n \in 1..MaxTags},
       code_snippet : {<<"a">>, <<"\\", "\"">>},
       description : {<<"a">>, <<"LF", "\\">>},
       generated_at : {<<"now">>},
       model_x_url : {<<DefaultUrlX>>},
       model_y_url : {<<DefaultUrlY>>}]

\* ---- save_record, save_html_record
\* records that can reach the persist: raw_intent and tags any value that
\* validate_json lets through, code_snippet and description a text or a
\* number
TypedRecords ==
  LET validated ==
        {v \in FieldValues : v.t # "absent" /\ ~Falsy(v) /\ ~BlankText(v)}
      some == {[t |-> "str", n |-> 0, s |-> <<"a">>, l |-> <<>>],
               [t |-> "num", n |-> 5, s |-> <<>>, l |-> <<>>]}
  IN  [raw_intent : validated, tags : validated,
       code_snippet : some, description : some]

\* save_record: path, open and json.dump; the try covers open and dump
save_record(rec, io) ==
  IF io = "ok" THEN [kind |-> "path", reported |-> FALSE]
  ELSE [kind |-> "empty", reported |-> TRUE]

\* save_html_record: title, slug and page are made before the try, which
\* covers open and write. _generate_title raises on raw_intent.split for a
\* value that is not a str; _generate_html_page raises on description[:160]
\* and _escape_html for a description that is not a str, on `for tag in
\* tags` for a number, and in _format_content for a code_snippet that is
\* not a str
save_html_record(rec, io) ==
  LET titleRaises == rec.raw_intent.t # "str"
      pageRaises == \/ rec.description.t # "str"
                    \/ rec.tags.t = "num"
                    \/ rec.code_snippet.t # "str"
  IN  IF titleRaises \/ pageRaises
        THEN [kind |-> "raise", reported |-> FALSE]
      ELSE IF io = "ok" THEN [kind |-> "path", reported |-> FALSE]
      ELSE [kind |-> "empty", reported |-> TRUE]

\* the path of an artifact: OUTPUT_DIR, then record_ or the slug of the
\* title, the time to the second, the first eight characters of a uuid4
\* and the extension
filepath(web, title, timestamp, unique_id) ==
  [safe_title |-> IF web THEN create_safe_filename(title) ELSE <<"record">>,
   timestamp |-> timestamp, unique_id |-> unique_id,
   ext |-> IF web THEN "html" ELSE "json"]

\* open(filepath, 'w') and the write under it, as the n-th persist of a
\* run: open creates the file or empties the one that is there, and an
\* exception of the write (UnicodeEncodeError for a text that utf-8 cannot
\* encode) leaves what was written before it. dir maps each path of
\* OUTPUT_DIR to the persist that wrote it last
write_file(dir, path, io, n) ==
  IF io = "OSError" THEN dir
  ELSE [p \in DOMAIN dir \cup {path} |-> IF p = path THEN n ELSE dir[p]]

\* two persists of a run, one after the other, into an empty OUTPUT_DIR:
\* each has a title, a second of the clock, a draw of uuid4 and an outcome
\* of open and write; the clock does not go back
PersistCalls ==
  LET seconds == 0..1
      unique_ids == 0..1
      call == [title : {<<"a">>, <<"b">>, <<"B">>}, timestamp : seconds,
               unique_id : unique_ids,
               io : {"ok", "OSError", "UnicodeEncodeError"}]
  IN  {c \in [web : BOOLEAN, first : call, second : call] :
         /\ c.first.timestamp <= c.second.timestamp
         /\ ~c.web => (c.first.title = <<"a">> /\ c.second.title = <<"a">>)}

\* what the two persists return and leave in OUTPUT_DIR
persist_twice(c) ==
  LET path(k) == filepath(c.web, k.title, k.timestamp, k.unique_id)
      returned(k) == IF k.io = "ok" THEN [kind |-> "path", path |-> path(k)]
                     ELSE [kind |-> "empty", path |-> path(k)]
      empty == [p \in {} |-> 0]
      after1 == write_file(empty, path(c.first), c.first.io, 1)
      after2 == write_file(after1, path(c.second), c.second.io, 2)
  IN  [kind |-> "dir", dir |-> after2,
       returned |-> <<returned(c.first), returned(c.second)>>]

\* records for _generate_title: an optional blank, a run of letters around
\* the title limit, and an end (nothing, a blank, a full stop, a second
\* sentence)
TitleRecords ==
  LET lens == {0, 1, TitleLimit - 1, TitleLimit, TitleLimit + 1,
               TitleLimit + MaxTextLen}
      ends == {<<>>, <<" ">>, <<".">>, <<" ", ".", "a">>}
      texts(ns) == {lead \o [j \in 1..n |-> "a"] \o end :
                      lead \in {<<>>, <<" ">>}, n \in ns, end \in ends}
  IN  [raw_intent : texts(lens),
       description : texts({0, 1, TitleLimit + 1})]

\* ---- one application of one helper function
FnNames == {"assemble_record", "escape_html", "generate_html_page",
            "generate_title", "json_dump", "clean_json_string_twice",
            "persist_twice",
            "save_record", "save_html_record", "clean_json_string",
            "extract_json", "create_safe_filename"}

\* the inputs of a helper. json.loads can reach RecursionError on a
\* candidate that opens with a run of brackets deeper than the
\* interpreter's limit: the opening bracket of a candidate stands for such
\* a run
Args(f) ==
  IF f = "assemble_record"
    THEN [kind : {"dicts"}, intent : IntentDicts, solution : SolutionDicts]
  ELSE IF f = "escape_html"
    THEN [kind : {"text"}, text : Texts({"l", "t", ";"} \cup HtmlSpecials)]
  ELSE IF f = "generate_html_page" THEN [kind : {"record"}, rec : PageRecords]
  ELSE IF f = "generate_title" THEN [kind : {"record"}, rec : TitleRecords]
  ELSE IF f = "json_dump" THEN [kind : {"record"}, rec : JsonRecords]
  ELSE IF f = "persist_twice" THEN [kind : {"calls"}, calls : PersistCalls]
  ELSE IF f \in {"save_record", "save_html_record"}
    THEN [kind : {"record"}, rec : TypedRecords, io : {"ok", "OSError"}]
  ELSE IF f \in {"clean_json_string", "clean_json_string_twice"}
    THEN {a \in [kind : {"text"}, text : Texts({"{", "}", "[", "]", "a", " "}),
                  loads : LoadsOutcomes] :
            (a.loads = "RecursionError") =>
               (candidate(a.text) # <<>> /\ Head(candidate(a.text)) = "[")}
  ELSE IF f = "extract_json"
    THEN [kind : {"text"}, text : Texts({"F", "json", "{}", "a", " "})]
  ELSE [kind : {"text"}, text : Texts({"a", "B", "1", " ", "-", "_", "."})]

\* an engine at rest around the helper
InitFn ==
  /\ fn \in FnNames
  /\ arg \in Args(fn)
  /\ ret = NoArg
  /\ max_records = MaxRecords
  /\ max_consecutive_failures = MaxFailures
  /\ delay_between_records = 0
  /\ web_format = (fn \in {"generate_html_page", "save_html_record",
                           "generate_title",
                           "create_safe_filename", "escape_html"})
  /\ running = TRUE
  /\ total_records = 0
  /\ consecutive_failures = 0
  /\ pc = "persist"
  /\ i = 0 /\ delay_remaining = 0
  /\ term = "none" /\ result = "none"
  /\ xCalls = 1 /\ yCalls = 1 /\ nPersist = 1
  /\ anyFail = FALSE /\ xOk = TRUE
  /\ nCtl = 0 /\ ctl = "none" /\ stopAt = "none" /\ opsAfterStop = 0
  /\ runs = 1 /\ summary = FALSE
  /\ intent_data = 1 /\ intent_arg = 1 /\ solution_data = 1
  /\ record = <<1, 1>>
  /\ rag = DefaultRag /\ x_saw = rag /\ y_saw = rag
  /\ model_x_url = DefaultUrlX /\ model_y_url = DefaultUrlY
  /\ start_button = FALSE /\ ui_op = "none"
  /\ stage = "none" /\ http = NoHttp /\ requests = 0
  /\ response = NoneResponse /\ spc = "off" /\ stage_result = NoResult
  /\ msgs = <<>>
  /\ writes = [json |-> IF web_format THEN 0 ELSE 1,
               html |-> IF web_format THEN 1 ELSE 0]
  /\ nSaved = 0

\* the helper f is called and returns value
Returned(f, value) ==
  /\ fn = f
  /\ ret = NoArg
  /\ ret' = value
  /\ UNCHANGED <<engineVars, uiVars, stageVars, out, fn, arg>>

NextFn ==
  \/ Returned("assemble_record",
              [kind |-> "dict",
               rec |-> assemble_record(arg.intent, arg.solution)])
  \/ Returned("escape_html", [kind |-> "text", text |-> escape_html(arg.text)])
  \/ Returned("generate_html_page",
              [kind |-> "page",
               page |-> generate_html_page(arg.rec, generate_title(arg.rec))])
  \/ Returned("generate_title",
              [kind |-> "text", text |-> generate_title(arg.rec)])
  \/ Returned("json_dump", [kind |-> "file", file |-> json_dump(arg.rec)])
  \/ Returned("persist_twice", persist_twice(arg.calls))
  \/ Returned("save_record", save_record(arg.rec, arg.io))
  \/ Returned("save_html_record", save_html_record(arg.rec, arg.io))
  \/ Returned("clean_json_string", clean_json_string(arg.text, arg.loads))
  \/ Returned("clean_json_string_twice",
              LET once == clean_json_string(arg.text, arg.loads)
              IN  [kind |-> "pair", first |-> once,
                   second |-> IF once.kind = "text"
                                THEN clean_json_string(once.text, arg.loads)
                                ELSE once])
  \/ Returned("extract_json",
              [kind |-> "text", text |-> extract_json(arg.text)])
  \/ Returned("create_safe_filename",
              [kind |-> "text", text |-> create_safe_filename(arg.text)])

SpecFn == InitFn /\ [][NextFn]_vars

TypeOK ==
  /\ running \in BOOLEAN
  /\ total_records \in 0..max_records
  /\ consecutive_failures \in Nat
  /\ term \in {"none", "Stopped", "Completed", "Aborted"}
  /\ result \in {"none"} \cup Outcomes
  /\ (pc = "done") = (term # "none")
  /\ summary => pc = "done"
  /\ intent_data \in 0..xCalls /\ solution_data \in 0..yCalls

\* ------------------------------------------------------------------ claims
StagePcs == {"call_x", "call_y", "persist"}
WaitPcs == {"bo_check", "bo_sleep", "bo_exit", "exc_check", "exc_sleep",
            "exc_exit", "delay_check", "delay_sleep"}

\* a stage call or persist hands its result to run() in this step
Returns == pc \in StagePcs /\ pc' # pc

\* C1: a run in which every stage call and every persist succeeded and no
\* stop request or signal arrived ends with exactly max_records persists,
\* total_records = max_records, in the Completed state.
C1_AllSucceed ==
  (pc = "done" /\ nCtl = 0 /\ ~anyFail)
    => (nPersist = max_records /\ total_records = max_records
        /\ term = "Completed")

C1_Witness ==
  pc = "done" /\ nCtl = 0 /\ ~anyFail /\ max_records >= 2
  /\ nPersist = max_records

\* C2: a run in which every ideation call failed and no stop request or
\* signal arrived ends after exactly max_consecutive_failures ideation
\* calls, with no solving call, no persist, total_records = 0, Aborted.
C2_IdeationAlwaysFails ==
  (pc = "done" /\ nCtl = 0 /\ ~xOk)
    => (xCalls = max_consecutive_failures /\ yCalls = 0 /\ nPersist = 0
        /\ total_records = 0 /\ term = "Aborted")

C2_Witness ==
  pc = "done" /\ nCtl = 0 /\ ~xOk /\ max_consecutive_failures >= 2
  /\ xCalls = max_consecutive_failures

\* C3: every successfully persisted record sets consecutive_failures to
\* zero, and no other step lowers the counter (a successful ideation call
\* followed by a failed solving call does not reset it).
C3_ResetOnlyOnPersist ==
  [][ /\ (pc = "persist" /\ pc' # pc /\ result' = "ok")
           => (consecutive_failures' = 0
               /\ total_records' = total_records + 1)
      /\ (total_records' # total_records) => (consecutive_failures' = 0)
      /\ (consecutive_failures' < consecutive_failures)
           => (pc = "persist" /\ result' = "ok"
               /\ total_records' = total_records + 1
               /\ consecutive_failures' = 0)
    ]_vars

\* the first record is persisted in the iteration that follows
\* max_consecutive_failures - 1 failed iterations
C3_Witness ==
  pc = "post_persist" /\ result = "ok" /\ total_records = 1
  /\ consecutive_failures = 0 /\ max_consecutive_failures >= 2
  /\ xCalls = max_consecutive_failures

\* C4 (as stated): 0 <= consecutive_failures <= k; every failure returned
\* by a stage call or a persist, and every unexpected exception, adds
\* exactly one; when the counter equals k the run has left the loop Aborted.
C4_EveryFailureCounts ==
  [][ /\ consecutive_failures' \in 0..max_consecutive_failures
      /\ (Returns /\ result' \in {"fail", "raise"})
           => consecutive_failures' = consecutive_failures + 1
      /\ (consecutive_failures' = max_consecutive_failures)
           => (pc' = "done" /\ term' = "Aborted")
    ]_vars

\* C4 (amended): as C4, except that a stage call that returns no result
\* after the running flag was cleared is not counted: the run ends Stopped
\* with the counter unchanged.
C4_FailureBudget ==
  [][ /\ consecutive_failures' \in 0..max_consecutive_failures
      /\ (consecutive_failures' > consecutive_failures)
           => consecutive_failures' = consecutive_failures + 1
      /\ (Returns /\ result' \in {"fail", "raise"})
           => IF result' = "fail" /\ pc \in {"call_x", "call_y"} /\ ~running
                THEN /\ consecutive_failures' = consecutive_failures
                     /\ pc' = "done" /\ term' = "Stopped"
                ELSE consecutive_failures' = consecutive_failures + 1
      /\ (consecutive_failures' = max_consecutive_failures)
           => (pc' = "done" /\ term' = "Aborted")
    ]_vars

C4_Witness ==
  pc = "done" /\ term = "Aborted" /\ max_consecutive_failures >= 2
  /\ consecutive_failures = max_consecutive_failures /\ total_records >= 1

\* C5: when the running flag is cleared while the worker is inside a wait
\* (failure backoff, unexpected-error backoff, inter-record delay), no sleep
\* slice, stage call or persist is started afterwards, a slice in progress
\* lasts at most 0.5 s (0.1 s in the backoffs), and the run ends Stopped.
C5_StopInsideWait ==
  (stopAt \in WaitPcs)
    => /\ opsAfterStop = 0
       /\ pc \in WaitPcs \cup {"loop", "done"}
       /\ (pc = "delay_sleep" => sleep_time \in 1..DelaySlice)
       /\ (pc = "done" => term = "Stopped")

\* the flag was cleared during a backoff slice and the loop was left with
\* slices remaining
C5_Witness ==
  stopAt = "bo_sleep" /\ pc = "bo_exit" /\ i < BackoffSlices /\ ~running

\* C6: when the running flag is cleared while a stage call is in progress,
\* no further stage call and no persist is started: after the ideation call
\* no solving call, after the solving call no persist, so total_records
\* stays as it was, also when the call itself succeeded.
C6_StageBoundary ==
  (stopAt \in {"call_x", "call_y"})
    => /\ opsAfterStop = 0
       /\ pc \notin {"pre_y", "persist", "post_persist"}
       /\ (stopAt = "call_x" => pc # "call_y")
       /\ (pc = "done" /\ result = "ok" => term = "Stopped")

\* the solving call succeeded after the flag was cleared and nothing was
\* persisted
C6_Witness ==
  stopAt = "call_y" /\ pc = "done" /\ result = "ok" /\ term = "Stopped"
  /\ nPersist = 0 /\ total_records = 0

\* C7: once a stop request or a signal has cleared the running flag, no
\* step sets it again.
C7_FlagOneWay ==
  [][ (nCtl > 0 /\ ~running) => ~running' ]_vars

\* C8: a signal and a stop request have the same effect on the engine:
\* each clears the running flag and changes nothing else, so the worker
\* continues identically after either.
C8_UnifiedShutdown ==
  [][ (nCtl' # nCtl)
        => /\ ctl' \in {"stop", "signal"}
           /\ running' = FALSE
           /\ UNCHANGED <<cfg, ext, life, flow, seen, counters, pc, locals, term, result>>
    ]_vars

C8_Witness ==
  ctl = "signal" /\ nCtl = 1 /\ stopAt = "call_x" /\ pc = "done"
  /\ term = "Stopped"

\* C9: a persist that returns the failure sentinel is handled like a stage
\* failure: the counter is incremented, the run aborts at the limit, and
\* otherwise the 20-slice backoff is entered.
C9_PersistFailureBackoff ==
  [][ (pc = "persist" /\ pc' # pc /\ result' = "fail")
        => /\ consecutive_failures' = consecutive_failures + 1
           /\ IF consecutive_failures' >= max_consecutive_failures
                THEN pc' = "done" /\ term' = "Aborted"
                ELSE pc' = "bo_check" /\ i' = 0
    ]_vars

\* C10: an unexpected exception adds one to the failure counter, aborts
\* the run at the limit, and otherwise starts a wait of 50 slices, longer
\* than the 20 slices after a stage failure; a wait that was not
\* interrupted has slept all its slices and the loop then continues.
C10_UnexpectedError ==
  [][ /\ (Returns /\ result' = "raise")
           => /\ consecutive_failures' = consecutive_failures + 1
              /\ IF consecutive_failures' >= max_consecutive_failures
                   THEN pc' = "done" /\ term' = "Aborted"
                   ELSE pc' = "exc_check" /\ i' = 0
      /\ (pc' = "exc_exit" /\ running') => i' = UnexpectedBackoffSlices
      /\ (pc' = "bo_exit" /\ running') => i' = BackoffSlices
      /\ UnexpectedBackoffSlices > BackoffSlices
      /\ (pc = "exc_exit" /\ running /\ pc' # pc) => pc' = "loop"
    ]_vars

C10_Witness ==
  pc = "exc_exit" /\ running /\ i = UnexpectedBackoffSlices
  /\ result = "raise" /\ consecutive_failures >= 1

\* C11: every exception of a stage call or persist is taken by the handler
\* of run() (it never leaves run()); in every terminal state (Stopped,
\* Completed, Aborted) the summary can be and is only then emitted, and
\* nothing follows it: run() returns.
C11_SummaryAndReturn ==
  /\ pc \in {"idle", "loop", "top", "pre_y", "post_persist", "done"}
            \cup StagePcs \cup WaitPcs
  /\ (result = "raise")
       => pc \in {"exc_check", "exc_sleep", "exc_exit", "loop", "done"}
  /\ (pc = "done" /\ ~summary)
       => (term \in {"Stopped", "Completed", "Aborted"} /\ ENABLED Summary)
  /\ summary => (pc = "done" /\ term # "none" /\ ~ENABLED Worker)

C11_Witness ==
  pc = "done" /\ summary /\ term = "Aborted" /\ result = "raise"

\* C12: whenever run() starts (also a second time on the same engine),
\* total_records and consecutive_failures are zero.
C12_CountersZeroOnStart ==
  [][ (pc = "idle" /\ pc' = "loop")
        => (total_records' = 0 /\ consecutive_failures' = 0) ]_vars

\* C20: the solving call is given the intent returned by the ideation call
\* of the same iteration, which returned a validated intent; the persist
\* is given the record made of that intent and of the solution returned by
\* the solving call of the same iteration; calls never overtake each other.
C20_Sequential ==
  /\ (pc = "call_y")
       => (intent_arg # 0 /\ intent_arg = xCalls /\ intent_data = xCalls)
  /\ (pc = "persist")
       => (record = <<xCalls, yCalls>> /\ intent_data = xCalls
           /\ intent_arg = xCalls /\ solution_data = yCalls /\ yCalls # 0)
  /\ nPersist <= yCalls /\ yCalls <= xCalls
  /\ (pc = "call_x" => yCalls < xCalls)
  /\ (pc = "call_y" => nPersist < yCalls)

\* the second iteration persists the record of its own two stage results
C20_Witness ==
  pc = "persist" /\ xCalls = 2 /\ yCalls = 1 /\ record = <<2, 1>>

\* C16: an Intent that the ideation stage returns has both keys, a text
\* that is not blank, and a list of tags none of which is blank.
ValidIntent(d) ==
  /\ d.t = "obj"
  /\ d.o["raw_intent"].t = "str" /\ Strip(d.o["raw_intent"].s) # <<>>
  /\ d.o["tags"].t = "list"
  /\ \A j \in 1..Len(d.o["tags"].l) : Strip(d.o["tags"].l[j]) # <<>>

C16_IntentInvariant ==
  (spc = "done" /\ stage = "x" /\ stage_result.kind = "dict")
    => ValidIntent(stage_result.data)

\* C17: whatever text the model returns, the stage returns a dict or None
\* and raises nothing.
C17_StageNeverRaises ==
  (spc = "done") => stage_result.kind \in {"dict", "none"}

\* C18: when a stage got a text and returns None (parse or shape failure),
\* the status messages include a preview of the response.
InMsgs(m) == \E j \in 1..Len(msgs) : msgs[j] = m

C18_PreviewOnFailure ==
  (spc = "done" /\ stage_result.kind = "none" /\ response.kind \in {"garbage", "json"})
    => InMsgs("response_preview")

\* C19: call_model sends exactly one request; on a transport error, a
\* non-success status or a malformed envelope it reports the error and
\* returns None, otherwise the content; it raises nothing and leaves
\* total_records, consecutive_failures and running as they were.
C19_CallModel ==
  [][ (spc = "start" /\ spc' # spc)
        => /\ requests' = requests + 1
           /\ IF http.kind \in HttpErrors
                THEN response' = NoneResponse
                     /\ msgs' = msgs \o <<"error_calling_model">>
                ELSE response' = http.content /\ msgs' = msgs
           /\ response'.kind \in {"none", "empty", "garbage", "json"}
           /\ UNCHANGED <<total_records, consecutive_failures, running>>
    ]_vars

C19_Witness ==
  spc = "responded" /\ http.kind = "bad_envelope" /\ requests = 1
  /\ response = NoneResponse /\ InMsgs("error_calling_model")
  /\ consecutive_failures = 1

\* the configuration satisfies the constraints of the specification
ValidConfig ==
  /\ max_records >= 1
  /\ max_consecutive_failures >= 1
  /\ delay_between_records >= 0
  /\ ~Empty(model_x_url) /\ ~Empty(model_y_url)
  /\ Complete(rag)

\* C13: no engine is constructed and no run is in progress with a
\* configuration that violates the constraints (record limit >= 1, failure
\* limit >= 1, delay >= 0, both URLs and the five domain fields non-empty).
C13_RejectedAtConstruction ==
  ThreadAlive => ValidConfig

\* C14: the five domain-shaping fields of the configuration are never
\* empty, so no run starts with an empty one; a save_rag_config that finds
\* an empty field after trimming changes nothing, and a start_generation
\* that is refused creates no engine.
C14_RagComplete ==
  [][ /\ Complete(rag) /\ Complete(rag')
      /\ (ui_op' = "save_rejected") => rag' = rag
      /\ (ui_op' = "save_rejected" /\ ui_op' # ui_op)
           => UNCHANGED <<engineVars, model_x_url, model_y_url>>
      /\ (pc' = "idle" /\ pc # "idle")
           => (ui_op' = "start_ok" /\ Complete(rag) /\ rag' = rag)
      /\ (ui_op' = "start_rejected")
           => UNCHANGED <<pc, running, counters, calls, rag, start_button>>
    ]_vars

\* a save with an empty field was refused while a run started from the
\* generic preset is in progress
C14_Witness ==
  ui_op = "save_rejected" /\ rag = CucinaPreset /\ pc = "call_x"
  /\ x_saw = CucinaPreset

\* C15: within one record the solving stage reads the same five
\* domain-shaping fields as the ideation stage did.
C15_SameConfigInRecord ==
  (pc \in {"call_y", "persist"}) => (y_saw = x_saw)

\* C21: every assembled record is handed to exactly one writer, the one
\* web_format selects, and never again; total_records is the number of
\* persists that returned a path, never decreases and never exceeds
\* max_records.
C21_WrittenOnce ==
  [][ /\ total_records = nSaved /\ total_records' = nSaved'
      /\ total_records' <= max_records'
      /\ total_records' >= total_records
      /\ writes'.json + writes'.html = nPersist'
      /\ (web_format' => writes'.json = 0)
      /\ (~web_format' => writes'.html = 0)
      /\ (nPersist' # nPersist)
           => (nPersist' = nPersist + 1 /\ pc' = "persist" /\ record' # record)
      /\ (pc = "persist") => (record' = record /\ writes' = writes)
      /\ (nSaved' # nSaved)
           => (nSaved' = nSaved + 1 /\ pc = "persist" /\ result' = "ok")
    ]_vars

\* two documents were handed to save_html_record, one of them was saved
C21_Witness ==
  pc = "post_persist" /\ web_format /\ writes = [json |-> 0, html |-> 2]
  /\ nSaved = 1 /\ total_records = 1

Done(f) == fn = f /\ ret.kind # "none"

\* t has no raw <, >, " or ', and every & of t opens one of the five entities
NoRawSpecial(t) ==
  \A j \in 1..Len(t) :
    /\ t[j] \notin {"<", ">", "\"", "'"}
    /\ (t[j] = "&") =>
         \E e \in {Entity(c) : c \in HtmlSpecials} :
           /\ j + Len(e) - 1 <= Len(t)
           /\ SubSeq(t, j, j + Len(e) - 1) = e

\* sub occurs in t as a run of neighbouring characters
IsSubstring(sub, t) ==
  \E a \in 1..(Len(t) + 1) : \E b \in 0..Len(t) :
    Slice(t, a, b) = sub

\* C22: the record of two validated stage outputs, extra keys included,
\* has the intent text and the tags of the ideation stage, the content and
\* the explanation of the solving stage, and the two configured endpoints.
C22_RecordUnion ==
  Done("assemble_record") =>
    /\ ret.rec["raw_intent"] = "x"
    /\ ret.rec["tags"] = "x"
    /\ ret.rec["code_snippet"] = "y"
    /\ ret.rec["description"] = "y"
    /\ ret.rec["model_x_url"] = model_x_url
    /\ ret.rec["model_y_url"] = model_y_url

\* C24: save_record and save_html_record never raise for a record that can
\* reach them: a failure is reported and gives the empty path.
C24_PersistNeverRaises ==
  (Done("save_record") \/ Done("save_html_record")) =>
    /\ ret.kind \in {"path", "empty"}
    /\ (ret.kind = "empty") => ret.reported
    /\ (arg.io = "OSError") => ret.kind = "empty"

\* C25: no text put into the document by _generate_html_page holds a raw
\* <, >, &, " or ' of a record field.
C25_AllEscaped ==
  Done("generate_html_page") =>
    \A j \in 1..Len(ret.page) : NoRawSpecial(ret.page[j].text)

\* C26: the result of _escape_html holds none of the raw characters
\* <, >, ", ' and no & other than the one that opens an entity.
C26_EscapeHtml ==
  Done("escape_html") =>
    /\ NoRawSpecial(ret.text)
    /\ (arg.text = <<>>) => ret.text = <<>>
    /\ Cardinality({j \in 1..Len(arg.text) : arg.text[j] \in HtmlSpecials})
         = Cardinality({j \in 1..Len(ret.text) : ret.text[j] = "&"})

C26_Witness ==
  /\ Done("escape_html")
  /\ arg.text = <<"<", "&", "\"", "'">>
  /\ ret.text = Entity("<") \o Entity("&") \o Entity("\"") \o Entity("'")

\* C27, as stated: _clean_json_string returns the slice from the first
\* opener to the last closer of its kind whenever the text has an opener.
C27_SliceAlways ==
  (Done("clean_json_string") /\ ret.kind = "text") =>
    LET s == Strip(arg.text)
        b == Find(s, "{")
        k == Find(s, "[")
    IN  IF b # 0 /\ (k = 0 \/ b < k)
          THEN ret.text = Slice(s, b, RFind(s, "}"))
        ELSE IF k # 0 THEN ret.text = Slice(s, k, RFind(s, "]"))
        ELSE TRUE

\* C27, amended: when it returns, _clean_json_string returns the slice from
\* the first opener to the last closer of its kind if that closer lies
\* behind the opener, and the trimmed text as it is in every other case.
C27_SliceWhenClosed ==
  (Done("clean_json_string") /\ ret.kind = "text") =>
    LET s == Strip(arg.text)
        b == Find(s, "{")
        k == Find(s, "[")
    IN  IF b # 0 /\ (k = 0 \/ b < k)
          THEN IF RFind(s, "}") > b
                 THEN /\ ret.text = Slice(s, b, RFind(s, "}"))
                      /\ Head(ret.text) = "{"
                      /\ ret.text[Len(ret.text)] = "}"
                 ELSE ret.text = s
        ELSE IF k # 0
          THEN IF RFind(s, "]") > k
                 THEN /\ ret.text = Slice(s, k, RFind(s, "]"))
                      /\ Head(ret.text) = "["
                      /\ ret.text[Len(ret.text)] = "]"
                 ELSE ret.text = s
        ELSE ret.text = s

C27_Witness ==
  /\ Done("clean_json_string")
  /\ arg.text = <<"a", "{", "}", "a">>
  /\ ret = [kind |-> "text", text |-> <<"{", "}">>]

\* the text of r from position a up to the next fence, or to the end
UpToFence(r, a) ==
  LET fences == {m \in a..Len(r) : r[m] = "F"}
  IN  IF fences = {} THEN Slice(r, a, Len(r))
      ELSE Slice(r, a, (CHOOSE m \in fences : \A n \in fences : m <= n) - 1)

\* C28: with a block fenced as json the candidate is the trimmed contents
\* of the first such block, else with any fence the trimmed contents of
\* the first fenced block, else the trimmed response.
C28_FenceSelection ==
  Done("extract_json") =>
    LET r == arg.text
        jsonFences == {j \in 1..(Len(r) - 1) : r[j] = "F" /\ r[j + 1] = "json"}
        fences == {j \in 1..Len(r) : r[j] = "F"}
    IN  IF jsonFences # {}
          THEN \E j \in jsonFences :
                 /\ \A m \in jsonFences : j <= m
                 /\ ret.text = Strip(UpToFence(r, j + 2))
        ELSE IF fences # {}
          THEN \E j \in fences :
                 /\ \A m \in fences : j <= m
                 /\ ret.text = Strip(UpToFence(r, j + 1))
        ELSE ret.text = Strip(r)

C28_Witness ==
  /\ Done("extract_json")
  /\ arg.text = <<"F", "json", "{}", "F">>
  /\ ret.text = <<"{}">>

\* C29: _clean_json_string returns for every input, and what it returns is
\* a run of neighbouring characters of the input.
C29_TotalNoRepair ==
  Done("clean_json_string") =>
    /\ ret.kind = "text"
    /\ IsSubstring(ret.text, arg.text)

\* C30: the slug of _create_safe_filename has only lower-case letters,
\* digits and hyphens, no hyphen at either end, and at most 50 characters.
C30_SlugAlphabet ==
  Done("create_safe_filename") =>
    /\ \A j \in 1..Len(ret.text) : ret.text[j] \in {"a", "b", "1", "-"}
    /\ (ret.text # <<>>) =>
         (Head(ret.text) # "-" /\ ret.text[Len(ret.text)] # "-")
    /\ Len(ret.text) <= SlugLimit

\* C31: for every record of texts _generate_title returns a non-empty title
\* of at most 60 characters: the trimmed Intent text before its first full
\* stop, cut to 57 characters and three dots when longer than 60; if that
\* is empty the same from the explanation; if that is empty too the
\* timestamp default.
C31_Title ==
  Done("generate_title") =>
    LET sentence(s) ==
          Strip(IF Find(s, ".") = 0 THEN s ELSE SubSeq(s, 1, Find(s, ".") - 1))
        capped(s) ==
          IF Len(s) > 60 THEN SubSeq(s, 1, 57) \o <<".", ".", ".">> ELSE s
        a == sentence(arg.rec.raw_intent)
        b == sentence(arg.rec.description)
    IN  /\ ret.text # <<>>
        /\ Len(ret.text) <= 60
        /\ ret.text = IF a # <<>> THEN capped(a)
                      ELSE IF b # <<>> THEN capped(b)
                      ELSE <<"S">>

\* a first sentence of 61 letters is cut to 57 letters and three dots
C31_Witness ==
  /\ Done("generate_title")
  /\ Len(arg.rec.raw_intent) = 65
  /\ arg.rec.raw_intent[1] = " " /\ arg.rec.raw_intent[64] = "."
  /\ Len(ret.text) = 60
  /\ ret.text[57] = "a" /\ ret.text[58] = "."

\* reading a JSON text back (json.load): the characters of a string behind
\* its opening quote, up to the closing quote
RECURSIVE ParseChars(_, _)
ParseChars(t, acc) ==
  IF t = <<>> THEN [ok |-> FALSE, val |-> <<>>, rest |-> <<>>]
  ELSE IF Head(t) = "\"" THEN [ok |-> TRUE, val |-> acc, rest |-> Tail(t)]
  ELSE IF Head(t) = "\\"
    THEN IF Len(t) >= 2 /\ t[2] \in {"\"", "\\", "n"}
           THEN ParseChars(Tail(Tail(t)),
                           Append(acc, IF t[2] = "n" THEN "LF" ELSE t[2]))
           ELSE [ok |-> FALSE, val |-> <<>>, rest |-> <<>>]
  ELSE IF Head(t) = "LF" THEN [ok |-> FALSE, val |-> <<>>, rest |-> <<>>]
  ELSE ParseChars(Tail(t), Append(acc, Head(t)))

\* white space between the tokens of a JSON text
SkipSpace(t) == IF t # <<>> /\ Head(t) = "LF" THEN Tail(t) ELSE t

\* the items of a list behind its opening bracket or behind a comma
RECURSIVE ParseItems(_, _)
ParseItems(t, acc) ==
  LET fail == [ok |-> FALSE, val |-> <<>>, rest |-> <<>>]
      u == SkipSpace(t)
  IN  IF u = <<>> \/ Head(u) # "\"" THEN fail
      ELSE LET e == ParseChars(Tail(u), <<>>)
               r == SkipSpace(e.rest)
           IN  IF ~e.ok \/ r = <<>> THEN fail
               ELSE IF Head(r) = "]"
                 THEN [ok |-> TRUE, val |-> Append(acc, e.val), rest |-> Tail(r)]
               ELSE IF Head(r) = ","
                 THEN ParseItems(Tail(r), Append(acc, e.val))
               ELSE fail

\* json.load of the text of one value
LoadJson(t) ==
  IF t = <<>> THEN [ok |-> FALSE, kind |-> "none", val |-> <<>>]
  ELSE IF Head(t) = "\""
    THEN LET r == ParseChars(Tail(t), <<>>)
         IN  [ok |-> r.ok /\ r.rest = <<>>, kind |-> "str", val |-> r.val]
  ELSE IF Head(t) = "["
    THEN IF SkipSpace(Tail(t)) = <<"]">>
           THEN [ok |-> TRUE, kind |-> "list", val |-> <<>>]
           ELSE LET r == ParseItems(Tail(t), <<>>)
                IN  [ok |-> r.ok /\ r.rest = <<>>, kind |-> "list",
                     val |-> r.val]
  ELSE [ok |-> FALSE, kind |-> "none", val |-> <<>>]

\* C32: reading back what json.dump wrote for a record gives, for every
\* key, the value of the record: the texts, the tags in their order, the
\* timestamp and both endpoints.
C32_RoundTrip ==
  Done("json_dump") =>
    /\ DOMAIN ret.file = DOMAIN arg.rec
    /\ \A k \in DOMAIN arg.rec :
         /\ LoadJson(ret.file[k]).ok
         /\ LoadJson(ret.file[k]).kind = IF k = "tags" THEN "list" ELSE "str"
         /\ LoadJson(ret.file[k]).val = arg.rec[k]

\* a record whose texts need every escape and whose tags hold a comma
C32_Witness ==
  /\ Done("json_dump")
  /\ arg.rec.raw_intent = <<"\\", "\"">>
  /\ arg.rec.tags = <<<<",">>, <<"LF">>>>
  /\ ret.file.raw_intent = <<"\"", "\\", "\\", "\\", "\"", "\"">>
  /\ ret.file.tags =
       <<"[", "LF", "\"", ",", "\"", ",", "LF", "\"", "\\", "n", "\"", "LF", "]">>

\* C34: the main content of the page is the Solution's content when it is
\* not empty, else the explanation when that is not empty, else the Intent
\* text; the explanation section is there exactly when the explanation is
\* not empty and differs from the main content.
C34_MainContent ==
  Done("generate_html_page") =>
    LET r == arg.rec
        main == IF r.code_snippet # <<>> THEN r.code_snippet
                ELSE IF r.description # <<>> THEN r.description
                ELSE r.raw_intent
        slot(name) ==
          (CHOOSE e \in {ret.page[j] : j \in 1..Len(ret.page)} :
             e.slot = name).text
    IN  /\ (main # <<>>) => slot("solution") = escape_html(main)
        /\ (main = <<>>) => (\A c \in {"a", "<"} :
                               \A j \in 1..Len(slot("solution")) :
                                 slot("solution")[j] # c)
        /\ (slot("description") # <<>>)
             <=> (r.description # <<>> /\ r.description # main)
        /\ (slot("description") # <<>>)
             => slot("description") = escape_html(r.description)

\* without a Solution content the explanation is the main content and is
\* not shown a second time
C34_Witness ==
  /\ Done("generate_html_page")
  /\ arg.rec.code_snippet = <<>>
  /\ arg.rec.description = <<"<">>
  /\ arg.rec.raw_intent = <<"a">>
  /\ ret.page[8] = [slot |-> "solution", text |-> Entity("<")]
  /\ ret.page[9] = [slot |-> "description", text |-> <<>>]

RECURSIVE ReplaceRun(_, _, _)
ReplaceRun(t, p, c) ==
  IF t = <<>> THEN <<>>
  ELSE IF Len(t) >= Len(p) /\ SubSeq(t, 1, Len(p)) = p
    THEN <<c>> \o ReplaceRun(SubSeq(t, Len(p) + 1, Len(t)), p, c)
  ELSE <<Head(t)>> \o ReplaceRun(Tail(t), p, c)

\* C39: _escape_html replaces every special character of the text by its
\* entity once, no ampersand of an entity is escaped again, and replacing
\* the five entities back, &amp; last, gives the text.
C39_EscapeInvertible ==
  Done("escape_html") =>
    LET back(t, c) == ReplaceRun(t, Entity(c), c)
        s == arg.text
    IN  /\ ret.text = Join(<<>>, [j \in 1..Len(s) |->
                                    IF s[j] \in HtmlSpecials
                                      THEN Entity(s[j]) ELSE <<s[j]>>])
        /\ back(back(back(back(back(ret.text, "<"), ">"), "\""), "'"), "&")
             = s

\* a text that already holds an entity
C39_Witness ==
  /\ Done("escape_html")
  /\ arg.text = <<"&", "l", "t", ";">>
  /\ ret.text = Entity("&") \o <<"l", "t", ";">>

\* C37: at most one worker at a time. While a worker has not returned from
\* run() the Start button is disabled; an engine and its worker are made
\* only by a start with the button enabled and no worker alive, and that
\* start disables the button; a start that fails its checks makes no
\* worker and leaves the button as it is.
C37_OneWorker ==
  [][ LET alive == pc # "nogen" /\ ~(pc = "done" /\ summary)
          aliveAfter == pc' # "nogen" /\ ~(pc' = "done" /\ summary')
      IN  /\ aliveAfter => ~start_button'
          /\ (pc' = "idle" /\ pc # "idle")
               => (~alive /\ start_button /\ ui_op' = "start_ok")
          /\ (start_button' /\ ~start_button)
               => (~alive /\ ui_op' = "finished" /\ pc' = pc)
          /\ (ui_op' = "start_rejected")
               => (pc' = pc /\ start_button /\ start_button' /\ ~aliveAfter
                   /\ running' = running)
    ]_vars

\* run() has returned and the poll has not seen it yet: Start is still
\* disabled
C37_Witness ==
  pc = "done" /\ summary /\ ~start_button /\ ui_op = "start_ok"
  /\ total_records = 1

C33_CollisionFree ==
  (fn = "persist_twice" /\ ret # NoArg) =>
     /\ ret.returned[1].path # ret.returned[2].path
     /\ Cardinality(DOMAIN ret.dir)
          = Cardinality({k \in 1..2 : ret.returned[k].kind = "path"})

\* C36: when every stage call, persist and sleep slice returns, run() ends,
\* and it ends after at most max_records * max_consecutive_failures
\* iterations of its loop: an iteration that is under way is at most the
\* R*k-th, and the ideation stage was called at most R*k times.
C36_Terminates ==
  /\ [](/\ xCalls <= max_records * max_consecutive_failures
        /\ (pc = "top") => xCalls < max_records * max_consecutive_failures)
  /\ <>(pc = "done" /\ summary)

\* the longest run: each record after k - 1 failures
C36_Witness ==
  pc = "done" /\ summary /\ term = "Completed"
  /\ max_records = 2 /\ max_consecutive_failures = 2
  /\ xCalls = 4 /\ total_records = 2


====
